---- MODULE Spec2Model ----
(***************************************************************************)
(* A model of marshmallow_autoschema/schema_factory.py: the class          *)
(* decorator schema_metafactory.__call__ (signature analysis, field        *)
(* synthesis, schema assembly, constructor patching) and the patched       *)
(* constructor model_init, run as a call stack of activations.             *)
(*                                                                         *)
(* The hierarchy is a linear chain of classes 1..NumLevels, class k        *)
(* deriving from class k-1, class 0 being `object`. Class k declares at    *)
(* most one constructor parameter of its own, named NameOf[k].             *)
(***************************************************************************)
EXTENDS Integers, Sequences, FiniteSets, TLC

\* ------------------------------------------------------------------ bounds
NumLevels == 3          \* depth of the class chain below `object`
MaxDecorations == 3     \* explicit (late) applications of the factory
MaxDepth == 5           \* interpreter recursion limit, scaled down

\* --------------------------------------------------------------- constants
Classes == 1..NumLevels
Object == 0
NameOf == <<"a", "b", "c", "d", "e", "f">>
UpperOf == <<"A", "B", "C", "D", "E", "F">>
Names == {NameOf[k] : k \in Classes}
SCHEMA_BASE == 0        \* the configured schema_base_class, as a schema id

\* Values an attribute, a default or a keyword argument can hold.
\*   "None"      the none-value          "Falsy"    0, "", (), False
\*   "V1","V2"   truthy supplied values  "D"        a truthy literal default
\*   "Fn"        a callable (itself)     "FnResult" what calling it returns
\*   "EmptySeq"  []                      "EmptyMap" {}
\*   "Unset"     the instance has no such attribute
\*   "missing"   marshmallow's `missing` marker
Truthy(v) == v \notin {"None", "Falsy", "EmptySeq", "EmptyMap"}

\* `b if a is None else a`: only the none-value gives way.
OrIfNone(a, b) == IF a = "None" THEN b ELSE a

\* src: `a or b`
Or(a, b) == IF Truthy(a) THEN a ELSE b

\* ------------------------------------------------------------- annotations
\* An annotation is a type: its name and, for a generic alias, its argument.
Type(name, arg) == [name |-> name, arg |-> arg]
Plain(name) == Type(name, "-")
Raw == Plain("Raw")
One == Plain("One")
Many == Plain("Many")
List == Plain("List")

\* src: check_type: types are compared by name
check_type(typ, typs) == \E t \in typs : typ.name = t.name

\* A lenient mapping that falls back to a raw field.
get_primitive_field_cls_lenient(typ) == "fields.Raw"

\* src: get_primitive_field_cls. "Enum" names any Enum subclass, "Model" a
\* model class that carries a generated schema, "Custom" any other class.
get_primitive_field_cls(typ) ==
    IF typ = "Enum" THEN "EnumField"
    ELSE IF typ = "Raw" THEN "fields.Raw"
    ELSE IF typ = "int" THEN "fields.Integer"
    ELSE IF typ = "str" THEN "fields.String"
    ELSE IF typ = "bool" THEN "fields.Boolean"
    ELSE IF typ = "datetime" THEN "fields.DateTime"
    ELSE "ValueError"

\* src: get_schema_cls(arg) succeeds iff arg has a __schema__ attribute.
get_schema_cls(typ) == IF typ = "Model" THEN "ModelSchema" ELSE "ValueError"

\* ------------------------------------------------------------- signatures
Param(name, kind, default, annotation) ==
    [name |-> name, kind |-> kind, default |-> default, annotation |-> annotation]

NoAnn == Plain("_empty")

\* A callable: a class's own original constructor ("orig", class), a patched
\* constructor ("patched", decoration id), object.__init__ ("object", 0), or
\* no entry at all in a class's __dict__ ("none", 0).
Callable(kind, ref) == [kind |-> kind, ref |-> ref]
ObjectInit == Callable("object", Object)
NoInit == Callable("none", 0)

\* Class shapes: what the source text of class k declares.
\*   ctor   the class body defines __init__
\*   param  "none" | "kwonly" | "poskw": its one parameter NameOf[k]
\*   dflt   "empty" (no default) or the default value
\*   ann    the parameter's annotation
\*   varkw  the constructor also declares **kwargs
\*   irr    the class attribute irregular_names ([defined, map])
Shape(ctor, param, dflt, ann, varkw, irr) ==
    [ctor |-> ctor, param |-> param, dflt |-> dflt, ann |-> ann,
     varkw |-> varkw, irr |-> irr]

NoIrr == [defined |-> FALSE, map |-> <<>>]
Irr(map) == [defined |-> TRUE, map |-> map]

\* inspect.signature of the original constructor of class k, of the patched
\* constructor model_init, and of object.__init__.
OrigSignature(shape, k) ==
    <<Param("self", "POSITIONAL_OR_KEYWORD", "empty", NoAnn)>>
    \o (IF shape.param = "poskw"
        THEN <<Param(NameOf[k], "POSITIONAL_OR_KEYWORD", shape.dflt, shape.ann)>>
        ELSE <<>>)
    \o (IF shape.param = "kwonly"
        THEN <<Param(NameOf[k], "KEYWORD_ONLY", shape.dflt, shape.ann)>>
        ELSE <<>>)
    \o (IF shape.varkw
        THEN <<Param("kwargs", "VAR_KEYWORD", "empty", NoAnn)>>
        ELSE <<>>)

ModelInitSignature ==
    <<Param("model_self", "POSITIONAL_OR_KEYWORD", "empty", NoAnn),
      Param("_mro_offset", "POSITIONAL_OR_KEYWORD", "1", NoAnn),
      Param("kwargs", "VAR_KEYWORD", "empty", NoAnn)>>

ObjectInitSignature ==
    <<Param("self", "POSITIONAL_ONLY", "empty", NoAnn),
      Param("args", "VAR_POSITIONAL", "empty", NoAnn),
      Param("kwargs", "VAR_KEYWORD", "empty", NoAnn)>>

ParamNames(sig) == {sig[i].name : i \in DOMAIN sig}

\* src: is_model_init
is_model_init_sig(sig) == "_mro_offset" \in ParamNames(sig)

\* src: kwsift, the loop over the reversed parameter list: position i counts
\* down from the last parameter; `out` is the dictionary built so far.
EmptyKw == [n \in {} |-> "None"]

RECURSIVE kwsift_loop(_, _, _, _)
kwsift_loop(kw, sig, i, out) ==
    IF i = 0 THEN out
    ELSE LET p == sig[i] IN
         IF p.kind = "VAR_KEYWORD" THEN kw
         ELSE IF p.kind \in {"KEYWORD_ONLY", "POSITIONAL_OR_KEYWORD"}
                 /\ p.name \in DOMAIN kw
              THEN kwsift_loop(kw, sig, i - 1, out @@ (p.name :> kw[p.name]))
              ELSE kwsift_loop(kw, sig, i - 1, out)

\* A kwsift that filters even when the callable declares **kwargs.
kwsift_sig_always_filters(kw, sig) ==
    [n \in {sig[i].name : i \in {j \in DOMAIN sig :
                sig[j].kind \in {"KEYWORD_ONLY", "POSITIONAL_OR_KEYWORD"}}}
           \cap DOMAIN kw |-> kw[n]]

kwsift_sig(kw, sig) == kwsift_loop(kw, sig, Len(sig), EmptyKw)

\* ----------------------------------------------------------------- state
VARIABLES
    cfg,          \* [Classes -> Shape]: the class bodies as written (static)
    conf,         \* the factory and the engine: [namer, extended, engine]
    driver,       \* what the calling program does: [names, values, late]
    schemaOf,     \* class __dict__: id of the attached __schema__, 0 if none
    initOf,       \* class __dict__: the __init__ entry (a Callable)
    bound,        \* class __dict__: dump/load/_field_namer are bound
    decorations,  \* every (schema class, model_init closure) pair created
    lastDeco,     \* outcome of the most recent application of the factory
    stack,        \* activations of patched constructors, innermost last
    result,       \* "idle" | "running" | "ok" | the exception raised
    inst,         \* class of the instance under construction, 0 if none
    attrs,        \* the instance's attributes: [Names -> value]
    assigned,     \* [Names -> number of setattr calls on the instance]
    bodyRuns,     \* [Classes -> runs of the class's original constructor body]
    activations,  \* number of patched-constructor activations so far
    invoked,      \* [Names -> number of calls of the field's callable default]
    given,        \* the keyword arguments of the instantiation M(**kw)
    entered,      \* activations so far: {[id, names]}, names those it received
    passed,       \* [Classes -> names last passed to the original constructor]
    wire,         \* [present, data]: the wire mapping produced by dump
    dumped,       \* attributes of the instance that was dumped
    loading       \* the running construction was started by load

vars == <<cfg, conf, driver, schemaOf, initOf, bound, decorations, lastDeco,
          stack, result, inst, attrs, assigned, bodyRuns, activations,
          invoked, given, entered, passed, wire, dumped, loading>>

static == <<cfg, conf, driver>>
classVars == <<schemaOf, initOf, bound, decorations, lastDeco>>
runVars == <<stack, result, inst, attrs, assigned, bodyRuns, activations,
             invoked, given, entered, passed>>
wireVars == <<wire, dumped, loading>>

\* ----------------------------------------------------- class introspection
\* src: model_cls.__mro__ (python index i is Mro(k)[i + 1])
Mro(k) == [i \in 1..(k + 1) |-> k + 1 - i]

\* src: attribute lookup `cls.__init__`: the first __dict__ entry along the MRO
RECURSIVE LookupInit(_)
LookupInit(k) ==
    IF k = Object THEN ObjectInit
    ELSE IF initOf[k].kind # "none" THEN initOf[k]
    ELSE LookupInit(k - 1)

\* src: getattr(model_cls, 'irregular_names', {})
RECURSIVE LookupIrregular(_)
LookupIrregular(k) ==
    IF k = Object THEN <<>>
    ELSE IF cfg[k].irr.defined THEN cfg[k].irr.map
    ELSE LookupIrregular(k - 1)

\* src: signature(f)
Signature(f) ==
    IF f.kind = "orig" THEN OrigSignature(cfg[f.ref], f.ref)
    ELSE IF f.kind = "patched" THEN ModelInitSignature
    ELSE ObjectInitSignature

is_model_init(f) == is_model_init_sig(Signature(f))

kwsift(kw, f) == kwsift_sig(kw, Signature(f))

\* ------------------------------------------------------ signature analysis
\* src: Fieldspec(...) built in __call__ from one keyword-only parameter
Fieldspec(p) ==
    [default |-> IF p.default # "empty" THEN p.default ELSE "None",
     annotation |-> p.annotation,
     required |-> p.default = "empty",
     allow_none |-> p.default = "None"]

\* src: init_named_kwargs
init_named_kwargs(base_init) ==
    LET sig == Signature(base_init)
        kwonly == {i \in DOMAIN sig : sig[i].kind = "KEYWORD_ONLY"}
    IN  [n \in {sig[i].name : i \in kwonly} |->
            Fieldspec(sig[CHOOSE i \in kwonly : sig[i].name = n])]

\* --------------------------------------------------------- field synthesis
\* src: self.field_namer
field_namer(n) ==
    IF conf.namer = "identity" THEN n
    ELSE IF conf.namer = "upper"
         THEN UpperOf[CHOOSE k \in 1..Len(NameOf) : NameOf[k] = n]
    ELSE "k"

\* src: getattr(model_cls, 'irregular_names', {}).get(kwname, field_namer(kwname))
load_dump_to(k, kwname) ==
    LET irr == LookupIrregular(k)
    IN  IF kwname \in DOMAIN irr THEN irr[kwname] ELSE field_namer(kwname)

\* src: get_field_from_annotation: the field constructor chosen for the
\* annotation, or "ValueError".
field_constr(annotation) ==
    IF annotation \in conf.extended THEN "extended"
    ELSE IF check_type(annotation, {Many, One, List})
         THEN IF get_schema_cls(annotation.arg) # "ValueError"
              THEN "fields.Nested"
              ELSE IF get_primitive_field_cls(annotation.arg) # "ValueError"
                   THEN "fields.List"
                   ELSE "ValueError"
    ELSE get_primitive_field_cls(annotation.name)

\* A variant that names the field on dump only; the engine then loads it from
\* its attribute name.
get_field_from_annotation_dump_only(fspec, wirename) ==
    [constr |-> field_constr(fspec.annotation),
     default |-> Or(fspec.default, "missing"),
     many |-> check_type(fspec.annotation, {Many, List}),
     required |-> fspec.required,
     load_from |-> "None",
     dump_to |-> wirename,
     allow_none |-> fspec.allow_none]

\* src: get_field_from_annotation: the field descriptor
get_field_from_annotation(fspec, wirename) ==
    [constr |-> field_constr(fspec.annotation),
     default |-> Or(fspec.default, "missing"),
     many |-> check_type(fspec.annotation, {Many, List}),
     required |-> fspec.required,
     load_from |-> wirename,
     dump_to |-> wirename,
     allow_none |-> fspec.allow_none]

\* Bases looked up with getattr, which also finds an inherited schema.
RECURSIVE InheritedSchema(_)
InheritedSchema(k) ==
    IF k = Object THEN 0
    ELSE IF schemaOf[k] # 0 THEN schemaOf[k]
    ELSE InheritedSchema(k - 1)

RECURSIVE schema_bases_getattr_from(_)
schema_bases_getattr_from(k) ==
    IF k = Object THEN <<>>
    ELSE (IF InheritedSchema(k) # 0 THEN <<InheritedSchema(k)>> ELSE <<>>)
         \o schema_bases_getattr_from(k - 1)

schema_bases_getattr(k) == schema_bases_getattr_from(k) \o <<SCHEMA_BASE>>

\* src: schema_bases
RECURSIVE schema_bases_from(_)
schema_bases_from(k) ==
    IF k = Object THEN <<>>
    ELSE (IF schemaOf[k] # 0 THEN <<schemaOf[k]>> ELSE <<>>)
         \o schema_bases_from(k - 1)

schema_bases(k) == schema_bases_from(k) \o <<SCHEMA_BASE>>

\* ------------------------------------------------------------- decoration
\* src: schema_metafactory.__call__, lines 281-322: what the decoration of
\* class k builds, or a record with failed = TRUE when a field raises.
Decoration(k) ==
    LET base_init == LookupInit(k)
        fspecs == init_named_kwargs(base_init)
        fields == [n \in DOMAIN fspecs |->
                     get_field_from_annotation(fspecs[n], load_dump_to(k, n))]
    IN  [model |-> k,
         base_init |-> base_init,
         fspecs |-> fspecs,
         fields |-> fields,
         bases |-> schema_bases(k),
         failed |-> \E n \in DOMAIN fields : fields[n].constr = "ValueError"]

\* When the program may apply the factory to class k: as a decorator at the
\* class definition (no class defined after k is decorated yet, k itself was
\* not), or, when driver.late, by a later explicit call.
MayDecorate(k) ==
    IF driver.late
    THEN Len(decorations) < MaxDecorations
    ELSE \A j \in Classes : j >= k => schemaOf[j] = 0

\* src: schema_metafactory.__call__
Decorate(k) ==
    /\ result = "idle"
    /\ MayDecorate(k)
    /\ LET d == Decoration(k)
           id == Len(decorations) + 1
       IN  IF d.failed
           THEN /\ lastDeco' = [cls |-> k, outcome |-> "ValueError"]
                /\ UNCHANGED <<schemaOf, initOf, bound, decorations>>
           ELSE /\ decorations' = Append(decorations, d)
                /\ schemaOf' = [schemaOf EXCEPT ![k] = id]
                /\ initOf' = [initOf EXCEPT ![k] = Callable("patched", id)]
                /\ bound' = [bound EXCEPT ![k] = TRUE]
                /\ lastDeco' = [cls |-> k, outcome |-> "ok"]
    /\ UNCHANGED <<static, runVars, wireVars>>

\* ------------------------------------------------------------ construction
Frame(id, off, kw, pc, via, target) ==
    [id |-> id, off |-> off, kw |-> kw, pc |-> pc, via |-> via, target |-> target]

Top == stack[Len(stack)]

SetTop(stk, pc) == [stk EXCEPT ![Len(stk)].pc = pc]

\* Returning from every activation that has nothing left to do.
RECURSIVE Unwind(_)
Unwind(stk) ==
    IF stk # <<>> /\ stk[Len(stk)].pc = "return"
    THEN Unwind(SubSeq(stk, 1, Len(stk) - 1))
    ELSE stk

\* A call that never checks its arguments.
BindsAnything(f, args) == TRUE

\* Python's argument binding for a call f(self, **args) of a constructor that
\* is not patched: every parameter without a default must be supplied, and
\* object.__init__ takes no argument besides the instance.
Binds(f, args) ==
    IF f.kind = "object" THEN DOMAIN args = {}
    ELSE LET sig == Signature(f)
         IN  \A i \in DOMAIN sig :
                (/\ sig[i].kind \in {"KEYWORD_ONLY", "POSITIONAL_OR_KEYWORD"}
                 /\ sig[i].name # "self"
                 /\ sig[i].default = "empty")
                => sig[i].name \in DOMAIN args

\* The body of an original constructor runs (it is opaque: it does not chain).
RunBody(f, args) ==
    IF f.kind = "orig"
    THEN /\ bodyRuns' = [bodyRuns EXCEPT ![f.ref] = @ + 1]
         /\ passed' = [passed EXCEPT ![f.ref] = DOMAIN args]
    ELSE UNCHANGED <<bodyRuns, passed>>

NoBody == UNCHANGED <<bodyRuns, passed>>

Enter(id, kw) ==
    /\ activations' = activations + 1
    /\ entered' = entered \cup {[id |-> id, names |-> DOMAIN kw]}

NoEnter == UNCHANGED <<activations, entered>>

\* A walk whose cursor does not advance.
NextOffsetStuck(off) == off

\* src: `_mro_offset=_mro_offset + 1`
NextOffset(off) == off + 1

Raise(exc) ==
    /\ result' = exc
    /\ stack' = <<>>

Finish(stk) ==
    /\ stack' = stk
    /\ result' = IF stk = <<>> THEN "ok" ELSE "running"

\* src: model_self = M(**kw): the patched constructor is entered at offset 1
Instantiate(k, kw) ==
    /\ result = "idle"
    /\ LookupInit(k).kind = "patched"
    /\ stack' = <<Frame(LookupInit(k).ref, 1, kw, "walk", "new", k)>>
    /\ result' = "running"
    /\ inst' = k
    /\ given' = kw
    /\ activations' = 1
    /\ entered' = {[id |-> LookupInit(k).ref, names |-> DOMAIN kw]}
    /\ UNCHANGED <<attrs, assigned, bodyRuns, invoked, passed>>
    /\ UNCHANGED <<static, classVars, wireVars>>

\* src: model_init, lines 337-348: the hop to the next class in line
StepWalk ==
    /\ result = "running"
    /\ Top.pc = "walk"
    /\ IF Top.off + 1 > Len(Mro(inst))
       THEN Raise("IndexError") /\ NoEnter /\ NoBody
       ELSE LET next_in_line == Mro(inst)[Top.off + 1]
                f == LookupInit(next_in_line)
                args == kwsift(Top.kw, f)
            IN  IF is_model_init(f)
                THEN /\ NoBody
                     /\ IF Len(stack) >= MaxDepth
                        THEN Raise("RecursionError") /\ NoEnter
                        ELSE /\ stack' = Append(SetTop(stack, "body"),
                                    Frame(f.ref, NextOffset(Top.off), args,
                                          "walk", "walk", next_in_line))
                             /\ Enter(f.ref, args)
                             /\ UNCHANGED result
                ELSE IF next_in_line # Object
                THEN /\ NoEnter
                     /\ IF Binds(f, args)
                        THEN /\ RunBody(f, args)
                             /\ stack' = SetTop(stack, "body")
                             /\ UNCHANGED result
                        ELSE Raise("TypeError") /\ NoBody
                ELSE /\ stack' = SetTop(stack, "body")
                     /\ UNCHANGED result
                     /\ NoEnter /\ NoBody
    /\ UNCHANGED <<inst, attrs, assigned, invoked, given>>
    /\ UNCHANGED <<static, classVars, wireVars>>

\* src: model_init, lines 351-358: the value one field is given
effective(fspec, kw, kwname) ==
    IF kwname \in DOMAIN kw THEN kw[kwname] ELSE fspec.default

callable(v) == v = "Fn"

calls_default(fspec, kw, kwname) ==
    /\ ~check_type(fspec.annotation, {Many, List})
    /\ ~check_type(fspec.annotation, {Raw})
    /\ callable(fspec.default)
    /\ ~Truthy(effective(fspec, kw, kwname))

\* Substitution only for an argument that was not supplied.
materialize_only_absent(fspec, kw, kwname) ==
    IF kwname \in DOMAIN kw THEN kw[kwname]
    ELSE IF check_type(fspec.annotation, {Many, List}) THEN Or(fspec.default, "EmptySeq")
    ELSE IF check_type(fspec.annotation, {Raw}) THEN Or(fspec.default, "EmptyMap")
    ELSE IF callable(fspec.default) THEN Or(fspec.default, "FnResult")
    ELSE fspec.default

\* src: model_init, lines 351-358: the value assigned to one field
materialize(fspec, kw, kwname) ==
    LET attr == effective(fspec, kw, kwname)
    IN  IF check_type(fspec.annotation, {Many, List}) THEN Or(attr, "EmptySeq")
        ELSE IF check_type(fspec.annotation, {Raw}) THEN Or(attr, "EmptyMap")
        ELSE IF callable(fspec.default) THEN Or(attr, "FnResult")
        ELSE attr

\* src: model_init, lines 350-362: the assignments of this level, then the
\* original (pre-patch) constructor
StepBody ==
    /\ result = "running"
    /\ Top.pc = "body"
    /\ LET d == decorations[Top.id]
           fs == d.fspecs
           args == kwsift(Top.kw, d.base_init)
       IN  /\ attrs' = [n \in Names |->
                  IF n \in DOMAIN fs THEN materialize(fs[n], Top.kw, n)
                  ELSE attrs[n]]
           /\ assigned' = [n \in Names |->
                  IF n \in DOMAIN fs THEN assigned[n] + 1 ELSE assigned[n]]
           /\ invoked' = [n \in Names |->
                  IF n \in DOMAIN fs /\ calls_default(fs[n], Top.kw, n)
                  THEN invoked[n] + 1 ELSE invoked[n]]
           /\ IF d.base_init.kind = "patched"
              THEN /\ NoBody
                   /\ IF Len(stack) >= MaxDepth
                      THEN Raise("RecursionError") /\ NoEnter
                      ELSE /\ stack' = Append(SetTop(stack, "return"),
                                  Frame(d.base_init.ref, 1, args, "walk",
                                        "base", d.model))
                           /\ Enter(d.base_init.ref, args)
                           /\ UNCHANGED result
              ELSE /\ NoEnter
                   /\ IF Binds(d.base_init, args)
                      THEN /\ RunBody(d.base_init, args)
                           /\ Finish(Unwind(SetTop(stack, "return")))
                      ELSE Raise("TypeError") /\ NoBody
    /\ UNCHANGED <<inst, given>>
    /\ UNCHANGED <<static, classVars, wireVars>>

\* ------------------------------------------------------------ the program
\* The keyword arguments the calling program may pass to class k: names its
\* hierarchy declares, among those the driver uses.
KwChoices(k) ==
    UNION {[S -> driver.values] :
             S \in SUBSET (driver.names \cap {NameOf[j] : j \in 1..k})}

Unset == [n \in Names |-> "Unset"]
Zero == [n \in Names |-> 0]
NoWire == [present |-> FALSE, data |-> <<>>]

\* The state after the class statements ran and before any decoration.
Start ==
    /\ schemaOf = [k \in Classes |-> 0]
    /\ initOf = [k \in Classes |->
                    IF cfg[k].ctor THEN Callable("orig", k) ELSE NoInit]
    /\ bound = [k \in Classes |-> FALSE]
    /\ decorations = <<>>
    /\ lastDeco = [cls |-> 0, outcome |-> "none"]
    /\ stack = <<>>
    /\ result = "idle"
    /\ inst = 0
    /\ attrs = Unset
    /\ assigned = Zero
    /\ bodyRuns = [k \in Classes |-> 0]
    /\ activations = 0
    /\ invoked = Zero
    /\ given = EmptyKw
    /\ entered = {}
    /\ passed = [k \in Classes |-> {}]
    /\ wire = NoWire
    /\ dumped = Unset
    /\ loading = FALSE

IntT == Plain("int")

\* Hierarchies of integer fields: every level is written without a
\* constructor, with a constructor of no parameter, or with a constructor of
\* one parameter (keyword-only or not, required or not, with **kwargs or not).
ChainShapes ==
    { Shape(FALSE, "none", "empty", NoAnn, FALSE, NoIrr),
      Shape(TRUE, "none", "empty", NoAnn, FALSE, NoIrr),
      Shape(TRUE, "kwonly", "empty", IntT, FALSE, NoIrr),
      Shape(TRUE, "kwonly", "None", IntT, FALSE, NoIrr),
      Shape(TRUE, "kwonly", "empty", IntT, TRUE, NoIrr),
      Shape(TRUE, "poskw", "empty", IntT, FALSE, NoIrr) }

Init ==
    /\ cfg \in [Classes -> ChainShapes]
    /\ conf = [namer |-> "identity", extended |-> {}, engine |-> "wire"]
    /\ driver = [names |-> Names, values |-> {"V1"}, late |-> FALSE]
    /\ Start

Next ==
    \/ \E k \in Classes : Decorate(k)
    \/ \E k \in Classes : \E kw \in KwChoices(k) : Instantiate(k, kw)
    \/ StepWalk
    \/ StepBody

Spec == Init /\ [][Next]_vars

\* Programs that apply the factory by explicit calls, in any order and more
\* than once, to classes that each declare one optional integer field.
InitLate ==
    /\ cfg = [k \in Classes |-> Shape(TRUE, "kwonly", "None", IntT, FALSE, NoIrr)]
    /\ conf = [namer |-> "identity", extended |-> {}, engine |-> "wire"]
    /\ driver = [names |-> Names, values |-> {"V1"}, late |-> TRUE]
    /\ Start

SpecLate == InitLate /\ [][Next]_vars

\* Programs whose root class declares one field of any annotation and any
\* default, below subclasses whose constructors take no parameter.
Defaults == {"empty", "None", "Falsy", "D", "Fn"}

Annotations ==
    { IntT, Plain("datetime"), Plain("Enum"), Raw, Plain("Custom"), NoAnn,
      Type("One", "Model"), Type("One", "int"), Type("One", "Custom"),
      Type("Many", "Model"), Type("Many", "int"), Type("Many", "Custom"),
      Type("List", "int") }

InitField ==
    /\ \E d \in Defaults : \E ann \in Annotations :
          cfg = [k \in Classes |->
                   IF k = 1 THEN Shape(TRUE, "kwonly", d, ann, FALSE, NoIrr)
                   ELSE Shape(TRUE, "none", "empty", NoAnn, FALSE, NoIrr)]
    /\ \E ext \in {{}, {Plain("Custom")}} :
          conf = [namer |-> "identity", extended |-> ext, engine |-> "wire"]
    /\ driver = [names |-> {NameOf[1]}, values |-> {"None", "Falsy", "V1"},
                 late |-> FALSE]
    /\ Start

SpecField == InitField /\ [][Next]_vars

\* ------------------------------------------------------------ dump and load
\* The fields a schema class declares or inherits from its bases, a field of
\* the class itself or of an earlier base hiding one of a later base.
RECURSIVE FieldsOf(_)
RECURSIVE FieldsOfAll(_, _)
FieldsOfAll(bases, i) ==
    IF i > Len(bases) THEN <<>>
    ELSE FieldsOf(bases[i]) @@ FieldsOfAll(bases, i + 1)

FieldsOf(id) ==
    IF id = SCHEMA_BASE THEN <<>>
    ELSE decorations[id].fields @@ FieldsOfAll(decorations[id].bases, 1)

\* src: getattr(model_self, SCHEMA_ATTRNAME), getattr(cls, SCHEMA_ATTRNAME)
SchemaFor(k) == InheritedSchema(k)

\* The engine's dump: every attribute the instance has is written under its
\* field's dump_to name. When two fields share a name either may be written
\* last.
DumpResults(fields) ==
    LET present == {n \in DOMAIN fields : attrs[n] # "Unset"}
        keys == {fields[n].dump_to : n \in present}
        writers == {pick \in [keys -> present] :
                       \A w \in keys : fields[pick[w]].dump_to = w}
    IN  {[w \in keys |-> attrs[pick[w]]] : pick \in writers}

\* src: model_dump
Dump ==
    /\ result = "ok"
    /\ ~loading
    /\ ~wire.present
    /\ SchemaFor(inst) # 0
    /\ \E data \in DumpResults(FieldsOf(SchemaFor(inst))) :
          wire' = [present |-> TRUE, data |-> data]
    /\ dumped' = attrs
    /\ UNCHANGED loading
    /\ UNCHANGED <<static, classVars, runVars>>

\* The engine's load: the key a field is read from. The engine reads the
\* field's load_from name; marshmallow 2 first looks the attribute name up in
\* the data and only then falls back to load_from. A field without a load_from
\* name is read from its attribute name.
LoadKey(fields, data, n) ==
    IF conf.engine = "attr_first" /\ n \in DOMAIN data THEN n
    ELSE IF fields[n].load_from = "None" THEN n
    ELSE fields[n].load_from

LoadedKwargs(fields, data) ==
    LET found == {n \in DOMAIN fields : LoadKey(fields, data, n) \in DOMAIN data}
    IN  [n \in found |-> data[LoadKey(fields, data, n)]]

Invalid(fields, kw) ==
    \E n \in DOMAIN fields :
        \/ fields[n].required /\ n \notin DOMAIN kw
        \/ n \in DOMAIN kw /\ kw[n] = "None" /\ ~fields[n].allow_none

\* src: model_load; the schema's post-load hook builds schema.__model__(**data)
Load ==
    /\ result = "ok"
    /\ ~loading
    /\ wire.present
    /\ LET id == SchemaFor(inst)
           fields == FieldsOf(id)
           kw == LoadedKwargs(fields, wire.data)
           model == decorations[id].model
       IN  /\ loading' = TRUE
           /\ given' = kw
           /\ inst' = model
           /\ attrs' = Unset
           /\ assigned' = Zero
           /\ invoked' = Zero
           /\ bodyRuns' = [k \in Classes |-> 0]
           /\ passed' = [k \in Classes |-> {}]
           /\ IF Invalid(fields, kw)
              THEN /\ result' = "ValidationError"
                   /\ stack' = <<>>
                   /\ activations' = 0
                   /\ entered' = {}
              ELSE /\ result' = "running"
                   /\ stack' = <<Frame(LookupInit(model).ref, 1, kw, "walk",
                                       "new", model)>>
                   /\ activations' = 1
                   /\ entered' = {[id |-> LookupInit(model).ref,
                                   names |-> DOMAIN kw]}
    /\ UNCHANGED <<wire, dumped>>
    /\ UNCHANGED <<static, classVars>>

\* Programs whose classes each declare one optional integer field, under any
\* field namer, with one class at most overriding its wire name.
IrrChoices(k) ==
    {Irr(NameOf[k] :> w) : w \in (Names \ {NameOf[k]}) \cup {"x"}}

OptionalField(irr) == Shape(TRUE, "kwonly", "None", IntT, FALSE, irr)

InitRoundTrip ==
    /\ \/ cfg = [k \in Classes |-> OptionalField(NoIrr)]
       \/ \E k0 \in Classes : \E irr \in IrrChoices(k0) :
             cfg = [k \in Classes |->
                      OptionalField(IF k = k0 THEN irr ELSE NoIrr)]
    /\ \E namer \in {"identity", "upper", "const"} :
       \E engine \in {"wire", "attr_first"} :
          conf = [namer |-> namer, extended |-> {}, engine |-> engine]
    /\ driver = [names |-> Names, values |-> {"V1"}, late |-> FALSE]
    /\ Start

NextRoundTrip == Next \/ Dump \/ Load

SpecRoundTrip == InitRoundTrip /\ [][NextRoundTrip]_vars

\* ================================================================= claims
Errors == {"TypeError", "RecursionError", "IndexError"}

Decorated(k) == schemaOf[k] # 0

\* The names the original constructor of class k declares.
Declares(k) == IF cfg[k].param = "none" THEN {} ELSE {NameOf[k]}

\* The case of C1: the class instantiated and every class below it are
\* decorated, each defines its own constructor with a keyword-only parameter,
\* and every such parameter is supplied.
FullChain ==
    /\ inst # 0
    /\ \A j \in 1..inst :
          /\ Decorated(j)
          /\ cfg[j].ctor
          /\ cfg[j].param = "kwonly"
          /\ NameOf[j] \in DOMAIN given

\* C1: in a chain of decorated classes, each with its own constructor and its
\* own keyword-only parameter, one instantiation with every parameter
\* supplied never assigns an attribute twice nor runs an original constructor
\* body twice, raises nothing, and has assigned every attribute and run every
\* body exactly once when it returns.
Thm_C1_ExactlyOnce ==
    FullChain =>
        /\ result \notin Errors
        /\ \A j \in 1..inst : assigned[NameOf[j]] <= 1 /\ bodyRuns[j] <= 1
        /\ result = "ok" =>
              \A j \in 1..inst : assigned[NameOf[j]] = 1 /\ bodyRuns[j] = 1

Wit_C1_ExactlyOnce ==
    /\ FullChain
    /\ inst = 3
    /\ result = "ok"
    /\ \A j \in 1..3 : assigned[NameOf[j]] = 1 /\ bodyRuns[j] = 1

\* The activations that did not receive a required field of their own.
MissingRequired ==
    {e \in entered :
        \E n \in DOMAIN decorations[e.id].fspecs :
            decorations[e.id].fspecs[n].required /\ n \notin e.names}

\* C3: a patched constructor invoked without a keyword-only parameter that
\* its class declares without a default never returns an instance: the
\* instantiation does not end "ok".
Thm_C3_RequiredField == MissingRequired # {} => result # "ok"

Wit_C3_RequiredField ==
    /\ inst = 3
    /\ result = "TypeError"
    /\ \E e \in MissingRequired : decorations[e.id].model = 1
    /\ \A j \in Classes : Decorated(j)

\* The supplied names a constructor accepts by its own declaration: all of
\* them when it declares a catch-all, else those it declares.
Accepts(f) ==
    IF f.kind # "orig" \/ cfg[f.ref].varkw THEN DOMAIN given
    ELSE DOMAIN given \cap Declares(f.ref)

\* C9 as stated: the keyword arguments handed to a patched ancestor at a walk
\* hop are exactly the supplied ones its original constructor accepts.
CE_C9_FilteredAtHop ==
    \A i \in DOMAIN stack :
        stack[i].via = "walk" =>
            DOMAIN stack[i].kw = Accepts(decorations[stack[i].id].base_init)

\* C9 amended: a patched ancestor is handed every keyword argument of the
\* calling activation, unchanged (the patched constructor is
\* keyword-variadic); only an original constructor is passed exactly the
\* supplied names it declares, or all of them when it declares **kwargs.
Thm_C9_HandedUnchanged ==
    /\ \A i \in DOMAIN stack :
          stack[i].via = "walk" => i > 1 /\ stack[i].kw = stack[i - 1].kw
    /\ \A k \in Classes :
          bodyRuns[k] > 0 =>
              passed[k] = Accepts(Callable("orig", k))

Wit_C9_HandedUnchanged ==
    /\ Len(stack) = 3
    /\ stack[3].via = "walk"
    /\ stack[3].target = 1
    /\ DOMAIN stack[3].kw = Names
    /\ ~cfg[1].varkw

\* C10 as stated: one instantiation activates patched constructors at most
\* as many times as the class's ancestor list is long, and ends.
CE_C10_BoundedActivations ==
    inst # 0 => activations <= Len(Mro(inst)) /\ result # "RecursionError"

\* The schemas carried now by the proper ancestors of k, in MRO order.
AncestorSchemas(k) ==
    LET carriers == SelectSeq(Mro(k), LAMBDA c : c # Object /\ c # k /\ Decorated(c))
    IN  [i \in 1..Len(carriers) |-> schemaOf[carriers[i]]]

Bases(k) == decorations[schemaOf[k]].bases

\* C6 as stated: in every state, the bases of a decorated class's schema are
\* the schemas its ancestors carry, in MRO order, then the configured base.
CE_C6_BasesMirrorAncestors ==
    \A k \in Classes :
        Decorated(k) => Bases(k) = AncestorSchemas(k) \o <<SCHEMA_BASE>>

\* Class k was decorated once, and after every decoration of its ancestors.
DecoratedInOrder(k) ==
    /\ \A i \in 1..Len(decorations) :
          decorations[i].model = k => i = schemaOf[k]
    /\ \A j \in 1..(k - 1) : Decorated(j) => schemaOf[j] < schemaOf[k]

\* C6 amended: for every class decorated once and after the decorations of
\* its ancestors, the bases of its schema are the schemas its ancestors
\* carry, in MRO order, then the configured base.
Thm_C6_BasesMirrorAncestors ==
    \A k \in Classes :
        Decorated(k) /\ DecoratedInOrder(k) =>
            Bases(k) = AncestorSchemas(k) \o <<SCHEMA_BASE>>

Wit_C6_BasesMirrorAncestors ==
    /\ Decorated(3) /\ DecoratedInOrder(3)
    /\ Decorated(1) /\ ~Decorated(2)
    /\ Bases(3) = <<schemaOf[1], SCHEMA_BASE>>

\* ------------------------------------------------------------ field claims
Primitives == {"int", "str", "bool", "datetime", "Raw", "Enum"}
IsRepeated(ann) == ann.name \in {"Many", "List"}
IsRaw(ann) == ann.name = "Raw"

\* The annotation matches no rule of the type classifier.
Unsupported(ann) ==
    /\ ann \notin conf.extended
    /\ ~(ann.name \in {"One", "Many", "List"}
         /\ ann.arg \in Primitives \cup {"Model"})
    /\ ann.name \notin Primitives

DeclaresUnsupported(k) ==
    cfg[k].ctor /\ cfg[k].param = "kwonly" /\ Unsupported(cfg[k].ann)

\* C7: a class with a keyword-only parameter of unsupported annotation is
\* never patched: every decoration of it raises, and it keeps no schema, its
\* original constructor and no dump/load bindings.
Thm_C7_UnsupportedAnnotation ==
    \A k \in Classes :
        DeclaresUnsupported(k) =>
            /\ schemaOf[k] = 0
            /\ initOf[k] = Callable("orig", k)
            /\ ~bound[k]
            /\ inst # k
            /\ lastDeco.cls = k => lastDeco.outcome = "ValueError"

Wit_C7_UnsupportedAnnotation ==
    /\ DeclaresUnsupported(1)
    /\ cfg[1].ann = Plain("Custom")
    /\ lastDeco = [cls |-> 1, outcome |-> "ValueError"]
    /\ decorations = <<>>
    /\ inst = 0

\* The fields assigned by this instantiation: name -> fieldspec.
Owned(n) == {e \in entered : n \in DOMAIN decorations[e.id].fspecs}
FieldspecOf(n) == decorations[(CHOOSE e \in Owned(n) : TRUE).id].fspecs[n]

NoneSupplied(n) ==
    /\ Owned(n) # {}
    /\ FieldspecOf(n).allow_none
    /\ n \in DOMAIN given
    /\ given[n] = "None"

\* C4 as stated: None supplied for a field whose default is None leaves the
\* attribute None, whatever the annotation.
CE_C4_NoneStaysNone ==
    \A n \in Names :
        NoneSupplied(n) /\ result = "ok" => attrs[n] = "None"

\* C4 amended: None supplied for a field whose default is None succeeds, and
\* the attribute is None unless the annotation is repeated (then it is the
\* empty sequence) or raw (then it is the empty mapping).
Thm_C4_NoneSupplied ==
    \A n \in Names :
        NoneSupplied(n) =>
            /\ result \notin Errors
            /\ result = "ok" =>
                  attrs[n] = IF IsRepeated(FieldspecOf(n).annotation) THEN "EmptySeq"
                             ELSE IF IsRaw(FieldspecOf(n).annotation) THEN "EmptyMap"
                             ELSE "None"

Wit_C4_NoneSupplied ==
    /\ NoneSupplied(NameOf[1])
    /\ result = "ok"
    /\ cfg[1].ann = Type("Many", "Model")
    /\ attrs[NameOf[1]] = "EmptySeq"

NotSupplied(n) == Owned(n) # {} /\ n \notin DOMAIN given

\* C5 as stated: a repeated field not supplied is left the empty sequence and
\* a raw field the empty mapping, for every recorded default.
CE_C5_EmptyMaterialized ==
    \A n \in Names :
        NotSupplied(n) /\ result = "ok" =>
            /\ IsRepeated(FieldspecOf(n).annotation) => attrs[n] = "EmptySeq"
            /\ IsRaw(FieldspecOf(n).annotation) => attrs[n] = "EmptyMap"

\* C5 amended: a repeated (raw) field not supplied is left the empty sequence
\* (mapping) when its recorded default is none or empty.
Thm_C5_EmptyMaterialized ==
    \A n \in Names :
        (/\ NotSupplied(n)
         /\ result = "ok"
         /\ FieldspecOf(n).default \in {"None", "Falsy"})
        => /\ IsRepeated(FieldspecOf(n).annotation) => attrs[n] = "EmptySeq"
           /\ IsRaw(FieldspecOf(n).annotation) => attrs[n] = "EmptyMap"

Wit_C5_EmptyMaterialized ==
    /\ NotSupplied(NameOf[1])
    /\ result = "ok"
    /\ cfg[1].ann = Type("List", "int")
    /\ cfg[1].dflt = "None"
    /\ attrs[NameOf[1]] = "EmptySeq"

\* C8 as stated: for a field, neither repeated nor raw, whose default is
\* callable, an instance built without the argument holds the result of
\* calling the default, and one built with the argument holds the argument,
\* the default not being called.
CE_C8_CallableDefault ==
    \A n \in Names :
        (/\ Owned(n) # {}
         /\ result = "ok"
         /\ ~IsRepeated(FieldspecOf(n).annotation)
         /\ ~IsRaw(FieldspecOf(n).annotation)
         /\ FieldspecOf(n).default = "Fn")
        => IF n \in DOMAIN given
           THEN attrs[n] = given[n] /\ invoked[n] = 0
           ELSE attrs[n] = "FnResult"

\* ------------------------------------------------------- round-trip claim
\* The fields of the schema of the instance's class.
InstFields == FieldsOf(SchemaFor(inst))

WireNamesClean(fields) ==
    \A n, m \in DOMAIN fields :
        n # m => /\ fields[n].dump_to # fields[m].dump_to
                 /\ fields[n].load_from # m

====
